---- MODULE Spec2Model ----
(***************************************************************************)
(* Model of the dance-motion-analyzer backend (backend/app/api/analysis.py,*)
(* backend/app/api/users.py and backend/app/db/session.py).                *)
(*                                                                         *)
(*   SpecAgg   the score aggregation of analyze_dance (lines 301-312)      *)
(*             applied to every bounded score list                         *)
(*   SpecSeq   analyze_dance requests run one after the other on one       *)
(*             DanceSession                                                *)
(*   SpecConc  analyze_dance requests, each with its own database session, *)
(*             interleaved at their database statements                    *)
(*   SpecParse analyze_with_gemini: the line parser and its error handler  *)
(*   SpecRound analyze_with_gemini on a text built in the response format  *)
(*             of the prompt from a known record                           *)
(*   SpecUsers update_profile, delete_account and reactivate_account       *)
(*             requests run one after the other on the users table         *)
(*                                                                         *)
(* Python floats are modelled as exact rationals [k, n, d] (k = "num"),    *)
(* None as k = "null" and a raised ZeroDivisionError as k = "err".         *)
(***************************************************************************)
EXTENDS Integers, Sequences, FiniteSets, TLC

VARIABLES
    \* ---- aggregation locals of analyze_dance (lines 297-312)
    scores,          \* scores = [a.score for a in all_analyses]
    early_scores,    \* early_scores (line 308)
    late_scores,     \* late_scores (line 309)
    agg_pc,          \* "input" | "done" | "raised"
    \* ---- database (committed state) of one DanceSession
    rows,            \* committed AnalysisResult.score values, in commit order
    sess,            \* committed DanceSession summary columns
    resp,            \* status of the last analyze_dance response
    \* ---- concurrent requests
    req,             \* per request: position and locals
    \* ---- analyze_with_gemini
    pc,                  \* "off" | "start" | "decoded" | "parsing" | "returned"
    known,               \* the record a text was built from (round trip)
    lines,               \* lines = text.split('\n') still to be processed
    line,                \* line = line.strip() of the current iteration
    nlines,              \* iterations of the for loop so far
    score,
    good_points,
    improvement_areas,
    specific_advice,
    current_section,     \* "none" (None) | "good" | "improve" | "advice"
    marker_seen,         \* history: some line so far held the score marker
    exc,                 \* the exception the except clause caught, or "none"
    result,              \* the returned dict
    \* ---- users (users.py)
    users,               \* committed rows of the users table, by user
    clock,               \* the value datetime.utcnow() returned last
    ureq                 \* the last users request: its input and its status

parseVars == <<pc, known, lines, line, nlines, score, good_points,
               improvement_areas, specific_advice, current_section,
               marker_seen, exc, result>>
userVars == <<users, clock, ureq>>
vars == <<scores, early_scores, late_scores, agg_pc, rows, sess, resp, req,
          parseVars, userVars>>

---------------------------------------------------------------------------
\* Bounds of the model
MaxScores == 5       \* longest score list given to the aggregation
MaxPoints == 2       \* most points of a record a text is built from
MaxLines == 4        \* most lines of a response text
MaxHist == 4         \* most analyze_dance requests on the session (sequential)
NReq == 2            \* concurrent analyze_dance requests
MaxClock == 3        \* most requests of users.py

\* Scores an analysis can produce: the fallback 50, the default 70, parsed
\* digit runs (0, 100 among them).
ScoreSet == {0, 50, 70, 100}

---------------------------------------------------------------------------
\* analyze_with_gemini not running
NoResult ==
    [score |-> 0, good_points |-> << >>, improvement_areas |-> << >>,
     specific_advice |-> << >>, raw_feedback |-> << >>]

NoKnown ==
    [whole |-> 0, tenths |-> 0, good |-> << >>, improve |-> << >>,
     advice |-> << >>, style |-> "dash"]

ParseOff ==
    /\ pc = "off"
    /\ known = NoKnown
    /\ lines = << >>
    /\ line = << >>
    /\ nlines = 0
    /\ score = 0
    /\ good_points = << >>
    /\ improvement_areas = << >>
    /\ specific_advice = << >>
    /\ current_section = "none"
    /\ marker_seen = FALSE
    /\ exc = "none"
    /\ result = NoResult

---------------------------------------------------------------------------
\* The users table before any request of users.py
None == "None"

UserIds == {"alice", "bob"}

\* the passwords the two accounts were registered with
Passwords == [u \in UserIds |-> IF u = "alice" THEN "pa" ELSE "pb"]

\* get_password_hash of app.api.auth
Hash(password) == "hash(" \o password \o ")"

InitialUsers ==
    [u \in UserIds |->
        [username |-> u,
         email |-> IF u = "alice" THEN "a@x" ELSE "b@x",
         hashed_password |-> Hash(Passwords[u]),
         full_name |-> None,
         bio |-> None,
         profile_image_url |-> None,
         dance_level |-> "beginner",
         preferred_genres |-> None,
         is_active |-> TRUE,
         updated_at |-> 0]]

NoUserRequest ==
    [op |-> "none", email |-> None, dance_level |-> None, username |-> None,
     password |-> None, status |-> 0]

UsersOff ==
    /\ users = InitialUsers
    /\ clock = 0
    /\ ureq = NoUserRequest

---------------------------------------------------------------------------
\* Numbers

Abs(a) == IF a < 0 THEN -a ELSE a

RECURSIVE Gcd(_, _)
Gcd(a, b) == IF b = 0 THEN a ELSE Gcd(b, a % b)

Null == [k |-> "null", n |-> 0, d |-> 1]
Err == [k |-> "err", n |-> 0, d |-> 1]

\* the rational n/d in lowest terms with a positive denominator
Num(n, d) ==
    LET g == Gcd(Abs(n), Abs(d))
        s == IF d < 0 THEN -1 ELSE 1
    IN [k |-> "num", n |-> (s * n) \div g, d |-> (s * d) \div g]

Whole(i) == Num(i, 1)

\* a / b of Python: ZeroDivisionError when b is zero
Div(a, b) ==
    IF a.k # "num" \/ b.k # "num" THEN Err
    ELSE IF b.n = 0 THEN Err
    ELSE Num(a.n * b.d, a.d * b.n)

Sub(a, b) ==
    IF a.k # "num" \/ b.k # "num" THEN Err
    ELSE Num(a.n * b.d - b.n * a.d, a.d * b.d)

Mul(a, b) ==
    IF a.k # "num" \/ b.k # "num" THEN Err
    ELSE Num(a.n * b.n, a.d * b.d)

Gt0(a) == a.k = "num" /\ a.n > 0

RECURSIVE Sum(_)
Sum(s) == IF Len(s) = 0 THEN 0 ELSE s[1] + Sum(Tail(s))

RECURSIVE Max(_)
Max(s) == IF Len(s) = 1 THEN s[1]
          ELSE LET m == Max(Tail(s)) IN IF s[1] >= m THEN s[1] ELSE m

\* sum(s) / len(s)
Mean(s) == Div(Whole(Sum(s)), Whole(Len(s)))

---------------------------------------------------------------------------
\* Python slices

\* s[:k] for k >= 0
SliceTo(s, k) == SubSeq(s, 1, IF k > Len(s) THEN Len(s) ELSE k)

\* s[k:] ; a negative k counts from the end
SliceFrom(s, k) ==
    LET n == Len(s)
        start == IF k < 0 THEN (IF n + k < 0 THEN 0 ELSE n + k)
                 ELSE (IF k > n THEN n ELSE k)
    IN SubSeq(s, start + 1, n)

---------------------------------------------------------------------------
\* Aggregation (analyze_dance, lines 301-312)

MinTrend == 3

\* early_scores = scores[:len(scores)//3]
EarlyScores(sc) == SliceTo(sc, Len(sc) \div 3)

\* late_scores = scores[-len(scores)//3:]  -- unary minus binds tighter than
\* //, so the start index is floor(-n / 3)
LateScores(sc) == SliceFrom(sc, (-Len(sc)) \div 3)

RateGuard_AllowZero(early_avg) == early_avg.k = "num" /\ early_avg.n >= 0
\* the condition of line 312: early_avg > 0
RateGuard(early_avg) == Gt0(early_avg)

\* ((late_avg - early_avg) / early_avg) * 100 if early_avg > 0 else 0
ImprovementRate(sc) ==
    LET early_avg == Mean(EarlyScores(sc))
        late_avg == Mean(LateScores(sc))
    IN IF early_avg.k = "err" \/ late_avg.k = "err" THEN Err
       ELSE IF RateGuard(early_avg)
            THEN Mul(Div(Sub(late_avg, early_avg), early_avg), Whole(100))
            ELSE Whole(0)

\* The attribute assignments of lines 301-312 on a session object whose
\* loaded attributes are s; [raised |-> TRUE] when a division raises.
Summarize(s, sc) ==
    IF Len(sc) = 0 THEN [raised |-> FALSE, s |-> s]
    ELSE LET s1 == [s EXCEPT !.overall_score = Mean(sc),
                             !.best_score = Whole(Max(sc))]
         IN IF Len(sc) >= MinTrend
            THEN LET r == ImprovementRate(sc)
                 IN IF r.k = "err" THEN [raised |-> TRUE, s |-> s1]
                    ELSE [raised |-> FALSE,
                          s |-> [s1 EXCEPT !.improvement_rate = r]]
            ELSE [raised |-> FALSE, s |-> s1]

NewSession ==
    [overall_score |-> Null, best_score |-> Null, improvement_rate |-> Null]

---------------------------------------------------------------------------
\* SpecAgg: the aggregation applied to every bounded score list

RECURSIVE SeqsUpTo(_, _)
SeqsUpTo(S, n) ==
    IF n = 0 THEN {<< >>}
    ELSE LET P == SeqsUpTo(S, n - 1)
         IN P \cup {Append(p, x) : p \in {q \in P : Len(q) = n - 1}, x \in S}

AggInit ==
    /\ scores \in SeqsUpTo(ScoreSet, MaxScores)
    /\ early_scores = << >>
    /\ late_scores = << >>
    /\ agg_pc = "input"
    /\ rows = << >>
    /\ sess = NewSession
    /\ resp = 0
    /\ req = << >>
    /\ ParseOff
    /\ UsersOff

\* lines 301-312 on a fresh session object
Aggregate ==
    /\ agg_pc = "input"
    /\ LET out == Summarize(NewSession, scores)
       IN /\ sess' = out.s
          /\ agg_pc' = IF out.raised THEN "raised" ELSE "done"
    /\ early_scores' = IF Len(scores) >= MinTrend THEN EarlyScores(scores) ELSE << >>
    /\ late_scores' = IF Len(scores) >= MinTrend THEN LateScores(scores) ELSE << >>
    /\ UNCHANGED <<scores, rows, resp, req, parseVars, userVars>>

AggNext == Aggregate

SpecAgg == AggInit /\ [][AggNext]_vars

---------------------------------------------------------------------------
\* Claims about the aggregation (SpecAgg)

FirstK(s, k) == [i \in 1..k |-> s[i]]
LastK(s, k) == [i \in 1..k |-> s[Len(s) - k + i]]

\* C4: for every score list of length n >= 3 the early window is the first
\* floor(n/3) scores and the late window the last floor(n/3) scores, and when
\* the early mean is positive the rate is
\* (late_avg - early_avg) / early_avg * 100 over those two windows.
C4_WindowsAreFloorThirds ==
    (agg_pc = "done" /\ Len(scores) >= 3) =>
        LET k == Len(scores) \div 3
            e == FirstK(scores, k)
            l == LastK(scores, k)
        IN /\ early_scores = e
           /\ late_scores = l
           /\ Sum(e) > 0 =>
                sess.improvement_rate =
                    Num((Sum(l) - Sum(e)) * 100, Sum(e))

\* C5: for every list of n >= 3 non-negative scores the computation raises
\* no ZeroDivisionError, both windows are non-empty, and a zero early mean
\* gives the rate 0 whatever the late window holds.
C5_NoDivideByZero ==
    /\ agg_pc # "raised"
    /\ (agg_pc = "done" /\ Len(scores) >= 3) =>
          /\ early_scores # << >>
          /\ late_scores # << >>
          /\ sess.improvement_rate.k = "num"
          /\ Sum(early_scores) = 0 => sess.improvement_rate = Whole(0)

C5_Witness ==
    /\ agg_pc = "done"
    /\ scores = <<0, 0, 0, 100>>
    /\ sess.improvement_rate = Whole(0)

---------------------------------------------------------------------------
\* The database of one DanceSession and the analyze_dance handler

\* sessionmaker(autoflush=False): a query does not flush pending objects
AutoFlush == FALSE

Sessions == {"mine", "other"}     \* session ids a request can name
Owned == {"mine"}                 \* those the filter of line 263 finds

RECURSIVE Perms(_)
Perms(s) ==
    IF Len(s) = 0 THEN {<< >>}
    ELSE UNION {{SubSeq(p, 1, i - 1) \o <<s[1]>> \o SubSeq(p, i, Len(p))
                    : i \in 1..(Len(p) + 1)} : p \in Perms(Tail(s))}

\* db.query(AnalysisResult).filter(...).all() of line 297, issued with
\* `pending` added to the session but not flushed: the rows the statement
\* sees.  There is no ORDER BY: the rows come back in any order.
Visible(committed, pending) ==
    IF AutoFlush THEN committed \o pending ELSE committed

QueryAll(committed, pending) == Perms(Visible(committed, pending))

\* db.commit(): flush the INSERT of the new row and an UPDATE of the columns
\* whose value differs from the one loaded, then COMMIT.
CommitSession(dbs, loaded, assigned) ==
    [c \in DOMAIN dbs |-> IF assigned[c] # loaded[c] THEN assigned[c] ELSE dbs[c]]

\* ---- SpecSeq: whole requests, one after the other

SeqInit ==
    /\ scores = << >>
    /\ early_scores = << >>
    /\ late_scores = << >>
    /\ agg_pc = "input"
    /\ rows = << >>
    /\ sess = NewSession
    /\ resp = 0
    /\ req = << >>
    /\ ParseOff
    /\ UsersOff

\* lines 263-272: the session is not found
AnalyzeNotFound(sid) ==
    /\ sid \notin Owned
    /\ resp' = 404
    /\ UNCHANGED <<scores, early_scores, late_scores, agg_pc, rows, sess, req,
                   parseVars, userVars>>

\* lines 263-317 for a session of the user; new_score is analysis_result["score"]
AnalyzeDance(sid, new_score) ==
    /\ sid \in Owned
    /\ Len(rows) < MaxHist
    /\ \E read \in QueryAll(rows, <<new_score>>) :
          LET out == Summarize(sess, read)
              trend == Len(read) >= MinTrend
          IN /\ scores' = read
             /\ early_scores' = IF trend THEN EarlyScores(read) ELSE << >>
             /\ late_scores' = IF trend THEN LateScores(read) ELSE << >>
             /\ agg_pc' = IF out.raised THEN "raised" ELSE "done"
             /\ IF out.raised
                THEN /\ resp' = 500
                     /\ UNCHANGED <<rows, sess>>
                ELSE /\ resp' = 200
                     /\ rows' = Append(rows, new_score)
                     /\ sess' = CommitSession(sess, sess, out.s)
    /\ UNCHANGED <<req, parseVars, userVars>>

SeqNext ==
    \/ \E sid \in Sessions : AnalyzeNotFound(sid)
    \/ \E sid \in Sessions, new_score \in ScoreSet : AnalyzeDance(sid, new_score)

SpecSeq == SeqInit /\ [][SeqNext]_vars

\* C1: once an analyze_dance call has committed, overall_score is the mean
\* and best_score the maximum of all scores recorded for the session so far,
\* the score of that call included.
C1_SummaryCoversAllScores ==
    Len(rows) > 0 =>
        /\ sess.overall_score = Mean(rows)
        /\ sess.best_score = Whole(Max(rows))

\* C3: improvement_rate is null exactly while fewer than 3 scores have been
\* recorded for the session.
C3_RateNullIffFewerThanThree ==
    (sess.improvement_rate = Null) <=> (Len(rows) < 3)

---------------------------------------------------------------------------
\* SpecConc: analyze_dance requests, each with its own SessionLocal() from
\* get_db, interleaved at their database statements.  The handler holds no
\* lock and issues no SELECT ... FOR UPDATE.

Reqs == 1..NReq

IdleReq ==
    [pc |-> "idle", score |-> 0, loaded |-> NewSession, read |-> << >>,
     assigned |-> NewSession, before |-> 0]

ConcInit ==
    /\ scores = << >>
    /\ early_scores = << >>
    /\ late_scores = << >>
    /\ agg_pc = "input"
    /\ rows = << >>
    /\ sess = NewSession
    /\ resp = 0
    /\ req = [r \in Reqs |-> IdleReq]
    /\ ParseOff
    /\ UsersOff

\* lines 263-294: load the session row, run the analysis, db.add the result
Begin(r, new_score) ==
    /\ req[r].pc = "idle"
    /\ req' = [req EXCEPT ![r] =
                  [IdleReq EXCEPT !.pc = "added", !.score = new_score,
                                  !.loaded = sess]]
    /\ UNCHANGED <<scores, early_scores, late_scores, agg_pc, rows, sess, resp,
                   parseVars, userVars>>

\* lines 297-312: read the session's analyses and assign the summary
\* attributes on the loaded session object
Recompute(r) ==
    /\ req[r].pc = "added"
    /\ \E read \in QueryAll(rows, <<req[r].score>>) :
          LET out == Summarize(req[r].loaded, read)
          IN req' = [req EXCEPT ![r].pc = IF out.raised THEN "failed"
                                          ELSE "computed",
                                ![r].read = read,
                                ![r].assigned = out.s]
    /\ UNCHANGED <<scores, early_scores, late_scores, agg_pc, rows, sess, resp,
                   parseVars, userVars>>

\* lines 314-317: db.commit()
Commit(r) ==
    /\ req[r].pc = "computed"
    /\ rows' = Append(rows, req[r].score)
    /\ sess' = CommitSession(sess, req[r].loaded, req[r].assigned)
    /\ resp' = 200
    /\ req' = [req EXCEPT ![r].pc = "done", ![r].before = Len(rows)]
    /\ UNCHANGED <<scores, early_scores, late_scores, agg_pc, parseVars, userVars>>

ConcNext ==
    \/ \E r \in Reqs, new_score \in ScoreSet : Begin(r, new_score)
    \/ \E r \in Reqs : Recompute(r)
    \/ \E r \in Reqs : Commit(r)

SpecConc == ConcInit /\ [][ConcNext]_vars

\* C2: "append new score, then recompute summary" is serialized per session:
\* once the concurrent requests have committed, no committed summary was
\* computed from a stale history, i.e. each request's summary was computed
\* from a history holding every score committed before its own commit, so the
\* stored summary drops none of the new scores.
C2_NoStaleSummary ==
    (\A r \in Reqs : req[r].pc = "done") =>
        \A r \in Reqs : Len(req[r].read) >= req[r].before

---------------------------------------------------------------------------
\* Strings: a str is a sequence of characters.  The characters of the
\* markers are named by their reading:
\*   U+30B9 U+30B3 U+30A2        "SU" "KO" "A"            (score)
\*   U+826F U+3044 U+70B9        "RYO" "hi" "TEN"         (good points)
\*   U+6539 U+5584 U+70B9        "KAI" "ZEN" "TEN"        (improvement)
\*   U+5177 U+4F53 U+7684 U+306A "GU" "TAI" "TEKI" "na"   (specific ...)
\*   U+30A2 U+30C9 U+30D0 U+30A4 U+30B9  "A" "DO" "BA" "I" "SU"  (advice)
\*   U+30FB "DOT" (the second bullet), "NL" line feed, "TAB" tab

Digits == {"0", "1", "2", "3", "4", "5", "6", "7", "8", "9"}

DigitVal(c) ==
    CASE c = "0" -> 0 [] c = "1" -> 1 [] c = "2" -> 2 [] c = "3" -> 3
      [] c = "4" -> 4 [] c = "5" -> 5 [] c = "6" -> 6 [] c = "7" -> 7
      [] c = "8" -> 8 [] c = "9" -> 9

\* the characters str.strip() removes
Whitespace == {" ", "TAB", "NL"}

RECURSIVE LStrip(_, _)
\* s.lstrip(chars): drop leading characters while they are in the set
LStrip(s, chars) ==
    IF Len(s) > 0 /\ s[1] \in chars THEN LStrip(Tail(s), chars) ELSE s

RECURSIVE RStrip(_, _)
RStrip(s, chars) ==
    IF Len(s) > 0 /\ s[Len(s)] \in chars
    THEN RStrip(SubSeq(s, 1, Len(s) - 1), chars) ELSE s

\* s.strip()
Strip(s) == RStrip(LStrip(s, Whitespace), Whitespace)

\* s.startswith(p)
StartsWith(s, p) == Len(s) >= Len(p) /\ SubSeq(s, 1, Len(p)) = p

\* p in s
Contains(s, p) ==
    \E i \in 1..(Len(s) - Len(p) + 1) : SubSeq(s, i, i + Len(p) - 1) = p

RECURSIVE Split(_, _)
\* s.split(c) for a one-character separator
Split(s, c) ==
    IF \A i \in 1..Len(s) : s[i] # c THEN <<s>>
    ELSE LET i == CHOOSE j \in 1..Len(s) :
                      s[j] = c /\ \A h \in 1..(j - 1) : s[h] # c
         IN <<SubSeq(s, 1, i - 1)>> \o Split(SubSeq(s, i + 1, Len(s)), c)

RECURSIVE TakeDigits(_)
TakeDigits(s) ==
    IF Len(s) > 0 /\ s[1] \in Digits THEN <<s[1]>> \o TakeDigits(Tail(s))
    ELSE << >>

RECURSIVE SearchDigits(_)
\* re.search(r'\d+', s): the leftmost longest digit run, << >> for no match
SearchDigits(s) ==
    IF Len(s) = 0 THEN << >>
    ELSE IF s[1] \in Digits THEN TakeDigits(s)
    ELSE SearchDigits(Tail(s))

RECURSIVE ToFloat(_)
\* float(digits)
ToFloat(ds) ==
    IF Len(ds) = 0 THEN 0
    ELSE 10 * ToFloat(SubSeq(ds, 1, Len(ds) - 1)) + DigitVal(ds[Len(ds)])

---------------------------------------------------------------------------
\* analyze_with_gemini (lines 86-186)

ScoreMarker == <<"SU", "KO", "A", ":">>
GoodMarker == <<"RYO", "hi", "TEN", ":">>
ImproveMarker == <<"KAI", "ZEN", "TEN", ":">>
AdviceMarkerLong == <<"GU", "TAI", "TEKI", "na", "A", "DO", "BA", "I", "SU", ":">>
AdviceMarker == <<"A", "DO", "BA", "I", "SU", ":">>
BulletDash == <<"-", " ">>
BulletDot == <<"DOT">>
\* the characters of line.lstrip('- <U+30FB>')
BulletChars == {"-", " ", "DOT"}

DefaultScore == 70
FallbackScore == 50
GoodLimit == 15
ImproveLimit == 15
AdviceLimit == 20

Truncate_OffByOne(point, k) ==
    SubSeq(point, 1, IF Len(point) < k + 1 THEN Len(point) ELSE k + 1)

\* point[:k]
Truncate(point, k) == SubSeq(point, 1, IF Len(point) < k THEN Len(point) ELSE k)

\* lines 145-153: the new value of score for a line holding the score marker
ParseScore(ln, old) ==
    LET parts == Split(ln, ":")
    IN IF Len(parts) < 2 THEN old           \* IndexError, swallowed (152-153)
       ELSE LET score_text == Strip(parts[2])
                score_match == SearchDigits(score_text)
            IN IF score_match # << >> THEN ToFloat(score_match) ELSE old

\* line 162
PointOf(ln) == Strip(LStrip(ln, BulletChars))

IsBullet_DashOnly(ln) == StartsWith(ln, BulletDash)

\* line 160
IsBullet(ln) == StartsWith(ln, BulletDash) \/ StartsWith(ln, BulletDot)

IsAdviceLine_LongOnly(ln) == Contains(ln, AdviceMarkerLong)

\* line 158
IsAdviceLine(ln) == Contains(ln, AdviceMarkerLong) \/ Contains(ln, AdviceMarker)

\* One iteration of the loop of lines 139-168 on the raw element raw, from
\* the locals st = [score, good_points, improvement_areas, specific_advice,
\* current_section].
ParseLine(st, raw) ==
    LET ln == Strip(raw)
        point == PointOf(ln)
    IN IF ln = << >> THEN st
       ELSE IF Contains(ln, ScoreMarker)
            THEN [st EXCEPT !.score = ParseScore(ln, st.score)]
       ELSE IF Contains(ln, GoodMarker)
            THEN [st EXCEPT !.current_section = "good"]
       ELSE IF Contains(ln, ImproveMarker)
            THEN [st EXCEPT !.current_section = "improve"]
       ELSE IF IsAdviceLine(ln)
            THEN [st EXCEPT !.current_section = "advice"]
       ELSE IF IsBullet(ln)
            THEN IF st.current_section = "good" /\ point # << >>
                 THEN [st EXCEPT !.good_points =
                          Append(@, Truncate(point, GoodLimit))]
                 ELSE IF st.current_section = "improve" /\ point # << >>
                 THEN [st EXCEPT !.improvement_areas =
                          Append(@, Truncate(point, ImproveLimit))]
                 ELSE IF st.current_section = "advice" /\ point # << >>
                 THEN [st EXCEPT !.specific_advice =
                          Append(@, Truncate(point, AdviceLimit))]
                 ELSE st
       ELSE st

InitialLocals_Fallback ==
    [score |-> FallbackScore, good_points |-> << >>,
     improvement_areas |-> << >>, specific_advice |-> << >>,
     current_section |-> "none"]

\* lines 132-137
InitialLocals ==
    [score |-> DefaultScore, good_points |-> << >>,
     improvement_areas |-> << >>, specific_advice |-> << >>,
     current_section |-> "none"]

Locals ==
    [score |-> score, good_points |-> good_points,
     improvement_areas |-> improvement_areas,
     specific_advice |-> specific_advice,
     current_section |-> current_section]

\* lines 170-176; raw_feedback is the response text, which the model does
\* not carry
ParsedRecord(st) ==
    [score |-> st.score, good_points |-> st.good_points,
     improvement_areas |-> st.improvement_areas,
     specific_advice |-> st.specific_advice,
     raw_feedback |-> <<"text">>]

FallbackGood == <<"UGO", "hi", "te", "ru", "!">>
FallbackImprove == <<"mo", "tsu", "to", "OO", "ki", "ku">>
FallbackAdvice == <<"RI", "ZU", "MU", "wo", "ISHI", "KI">>

FallbackRecord_DefaultScore(e) ==
    [score |-> DefaultScore,
     good_points |-> <<FallbackGood>>,
     improvement_areas |-> <<FallbackImprove>>,
     specific_advice |-> <<FallbackAdvice>>,
     raw_feedback |-> <<"Analysis error: ", e>>]

\* lines 178-186: the dict returned by the except clause for exception e
FallbackRecord(e) ==
    [score |-> FallbackScore,
     good_points |-> <<FallbackGood>>,
     improvement_areas |-> <<FallbackImprove>>,
     specific_advice |-> <<FallbackAdvice>>,
     raw_feedback |-> <<"Analysis error: ", e>>]

---------------------------------------------------------------------------
\* SpecParse: analyze_with_gemini on any webcam frame, any outcome of the
\* Gemini call and any response text of up to MaxLines lines drawn from
\* LineSet, the lines being drawn as the loop reaches them.

Long21 == <<"a", "b", "c", "d", "e", "f", "g", "h", "i", "j", "k", "l", "m",
            "n", "o", "p", "q", "r", "s", "t", "u">>

LineSet ==
    { \* score lines
      ScoreMarker \o <<" ", "8", "5">>,
      ScoreMarker \o <<" ", "7", "2", "TEN">>,
      ScoreMarker,
      ScoreMarker \o <<" ", "x">>,
      ScoreMarker \o <<" ", "8", " ", "5">>,
      <<"9">> \o ScoreMarker \o <<" ", "8", "5">>,
      <<"x", ":", " ">> \o ScoreMarker \o <<" ", "8", "5">>,
      <<"1", ":", "5", " ">> \o ScoreMarker \o <<" ", "8", "5">>,
      ScoreMarker \o <<" ", "x", ":", " ", "8", "5">>,
      BulletDash \o ScoreMarker \o <<" ", "8", "5">>,
      GoodMarker \o <<" ">> \o ScoreMarker \o <<" ", "8", "5">>,
      ScoreMarker \o <<" ", "8", "5", " ">> \o ImproveMarker,
      <<"SU", "KO", "A", " ", "8", "5">>,
      \* section lines
      GoodMarker,
      ImproveMarker,
      AdviceMarkerLong,
      AdviceMarker,
      BulletDash \o GoodMarker \o <<" ", "x">>,
      ImproveMarker \o <<" ">> \o GoodMarker,
      <<"x", " ">> \o AdviceMarker \o <<"y">>,
      <<"RYO", "hi", "TEN">>,
      \* bullet lines
      BulletDash \o <<"x">>,
      BulletDot \o <<"y">>,
      BulletDash \o Long21,
      BulletDash \o <<"-", "x">>,
      BulletDot \o <<"DOT", "y">>,
      BulletDash,
      BulletDot,
      <<" ", " ">> \o BulletDash \o <<"x", " ", "y", " ">>,
      BulletDash \o <<"8", "5">>,
      <<"-", "x">>,
      \* other lines
      << >>,
      <<" ", "TAB">>,
      <<"x", "y">>,
      <<"8", "5">> }

Frames == [valid : BOOLEAN]

ParseInit ==
    /\ scores = << >>
    /\ early_scores = << >>
    /\ late_scores = << >>
    /\ agg_pc = "input"
    /\ rows = << >>
    /\ sess = NewSession
    /\ resp = 0
    /\ req = << >>
    /\ pc = "start"
    /\ known = NoKnown
    /\ lines = << >>
    /\ line = << >>
    /\ nlines = 0
    /\ score = 0
    /\ good_points = << >>
    /\ improvement_areas = << >>
    /\ specific_advice = << >>
    /\ current_section = "none"
    /\ marker_seen = FALSE
    /\ exc = "none"
    /\ result = NoResult
    /\ UsersOff

outerVars == <<scores, early_scores, late_scores, agg_pc, rows, sess, resp, req>>

\* the except clause of lines 178-186
Except(e) ==
    /\ pc' = "returned"
    /\ exc' = e
    /\ result' = FallbackRecord(e)
    /\ UNCHANGED <<known, lines, line, nlines, score, good_points,
                   improvement_areas, specific_advice, current_section,
                   marker_seen>>

\* lines 93-96: base64.b64decode raises binascii.Error on a malformed frame
Decode(frame) ==
    /\ pc = "start"
    /\ IF frame.valid
       THEN /\ pc' = "decoded"
            /\ UNCHANGED <<known, lines, line, nlines, score, good_points,
                           improvement_areas, specific_advice,
                           current_section, marker_seen, exc, result>>
       ELSE Except("binascii.Error")
    /\ UNCHANGED <<outerVars, userVars>>

\* lines 126-137: generate_content raises (outcome "api_error"), or
\* response.text raises ValueError (outcome "no_text"), or the text is split
\* and the locals are initialised
Generate(outcome) ==
    /\ pc = "decoded"
    /\ IF outcome = "text"
       THEN /\ pc' = "parsing"
            /\ score' = InitialLocals.score
            /\ good_points' = InitialLocals.good_points
            /\ improvement_areas' = InitialLocals.improvement_areas
            /\ specific_advice' = InitialLocals.specific_advice
            /\ current_section' = InitialLocals.current_section
            /\ UNCHANGED <<known, lines, line, nlines, marker_seen, exc, result>>
       ELSE Except(IF outcome = "api_error" THEN "APIError" ELSE "ValueError")
    /\ UNCHANGED <<outerVars, userVars>>

\* one iteration of the for loop (lines 139-168) on the element raw
Iterate(raw) ==
    /\ pc = "parsing"
    /\ LET st == ParseLine(Locals, raw)
       IN /\ score' = st.score
          /\ good_points' = st.good_points
          /\ improvement_areas' = st.improvement_areas
          /\ specific_advice' = st.specific_advice
          /\ current_section' = st.current_section
    /\ line' = Strip(raw)
    /\ nlines' = nlines + 1
    /\ marker_seen' = (marker_seen \/ Contains(Strip(raw), ScoreMarker))
    /\ UNCHANGED <<pc, known, exc, result>>
    /\ UNCHANGED <<outerVars, userVars>>

\* the loop reaches the next line of the text
NextLine(raw) ==
    /\ nlines < MaxLines
    /\ Iterate(raw)
    /\ UNCHANGED lines

\* lines 170-176, the text having no more lines
Return ==
    /\ pc = "parsing"
    /\ lines = << >>
    /\ pc' = "returned"
    /\ result' = ParsedRecord(Locals)
    /\ UNCHANGED <<known, lines, line, nlines, score, good_points,
                   improvement_areas, specific_advice, current_section,
                   marker_seen, exc>>
    /\ UNCHANGED <<outerVars, userVars>>

ParseNext ==
    \/ \E frame \in Frames : Decode(frame)
    \/ \E outcome \in {"text", "api_error", "no_text"} : Generate(outcome)
    \/ \E raw \in LineSet : NextLine(raw)
    \/ Return

SpecParse == ParseInit /\ [][ParseNext]_vars

---------------------------------------------------------------------------
\* Claims about analyze_with_gemini (SpecParse)

\* C6: whenever a step of obtaining the feedback text raises,
\* analyze_with_gemini returns the fixed fallback: score exactly 50, each of
\* the three lists holding the one fixed non-empty fallback string, and a
\* raw text that describes the error; nothing parsed is in the record.
C6_FallbackOnError ==
    exc # "none" =>
        /\ pc = "returned"
        /\ result.score = 50
        /\ result.good_points = << <<"UGO", "hi", "te", "ru", "!">> >>
        /\ result.improvement_areas =
               << <<"mo", "tsu", "to", "OO", "ki", "ku">> >>
        /\ result.specific_advice =
               << <<"RI", "ZU", "MU", "wo", "ISHI", "KI">> >>
        /\ result.raw_feedback = <<"Analysis error: ", exc>>

C6_Witness ==
    /\ pc = "returned"
    /\ exc = "ValueError"
    /\ result.score = 50

\* the part of ln after the first occurrence of marker
AfterMarker(ln, marker) ==
    LET i == CHOOSE j \in 1..(Len(ln) - Len(marker) + 1) :
                 /\ SubSeq(ln, j, j + Len(marker) - 1) = marker
                 /\ \A h \in 1..(j - 1) :
                        SubSeq(ln, h, h + Len(marker) - 1) # marker
    IN SubSeq(ln, i + Len(marker), Len(ln))

\* C7: on every line that contains the score marker the score becomes the
\* number formed by the first digit run anywhere after the marker, whatever
\* precedes the marker and whatever colons follow it; with no digit run after
\* the marker the score is unchanged.
C7_ScoreIsFirstRunAfterMarker ==
    [][(pc' = "parsing" /\ nlines' = nlines + 1
            /\ Contains(line', ScoreMarker)) =>
         LET run == SearchDigits(AfterMarker(line', ScoreMarker))
         IN score' = IF run # << >> THEN ToFloat(run) ELSE score]_vars

\* C8: a text that parses without raising and has no line containing the
\* score marker yields the default score 70 (not the fallback 50), whatever
\* section markers, bullets and digits it contains.
C8_DefaultScoreWithoutMarker ==
    (pc = "returned" /\ exc = "none" /\ ~marker_seen) => result.score = 70

C8_Witness ==
    /\ pc = "returned"
    /\ exc = "none"
    /\ ~marker_seen
    /\ result.good_points = << <<"8", "5">> >>
    /\ result.score = 70

IsSectionLine(ln) ==
    \/ Contains(ln, GoodMarker)
    \/ Contains(ln, ImproveMarker)
    \/ Contains(ln, AdviceMarker)

\* a bullet content line: no marker, begins with a bullet prefix
IsContentLine(ln) ==
    /\ ~Contains(ln, ScoreMarker)
    /\ ~IsSectionLine(ln)
    /\ (StartsWith(ln, <<"-", " ">>) \/ StartsWith(ln, <<"DOT">>))

FirstChars(p, k) == [i \in 1..(IF Len(p) < k THEN Len(p) ELSE k) |-> p[i]]

C9_Lists == <<good_points, improvement_areas, specific_advice>>

\* what one loop iteration on the stripped line ln may do, by C9
C9_Step(ln) ==
    LET point == PointOf(ln)
        content == IsContentLine(ln) /\ point # << >>
    IN /\ (content /\ current_section = "good") =>
              /\ good_points' = Append(good_points, FirstChars(point, 15))
              /\ UNCHANGED <<improvement_areas, specific_advice>>
       /\ (content /\ current_section = "improve") =>
              /\ improvement_areas' =
                     Append(improvement_areas, FirstChars(point, 15))
              /\ UNCHANGED <<good_points, specific_advice>>
       /\ (content /\ current_section = "advice") =>
              /\ specific_advice' =
                     Append(specific_advice, FirstChars(point, 20))
              /\ UNCHANGED <<good_points, improvement_areas>>
       /\ content => UNCHANGED current_section
       \* content lines in state none, empty lines, lines that are neither
       \* marker nor bullet
       /\ ((content /\ current_section = "none")
              \/ ln = << >>
              \/ (IsContentLine(ln) /\ point = << >>)
              \/ (~Contains(ln, ScoreMarker) /\ ~IsSectionLine(ln)
                     /\ ~IsContentLine(ln))) =>
              UNCHANGED <<good_points, improvement_areas, specific_advice,
                          current_section>>
       \* a line with one section marker selects that section
       /\ (~Contains(ln, ScoreMarker) /\ Contains(ln, GoodMarker)
              /\ ~Contains(ln, ImproveMarker) /\ ~Contains(ln, AdviceMarker)) =>
              current_section' = "good" /\ UNCHANGED C9_Lists
       /\ (~Contains(ln, ScoreMarker) /\ ~Contains(ln, GoodMarker)
              /\ Contains(ln, ImproveMarker) /\ ~Contains(ln, AdviceMarker)) =>
              current_section' = "improve" /\ UNCHANGED C9_Lists
       /\ (~Contains(ln, ScoreMarker) /\ ~Contains(ln, GoodMarker)
              /\ ~Contains(ln, ImproveMarker) /\ Contains(ln, AdviceMarker)) =>
              current_section' = "advice" /\ UNCHANGED C9_Lists

C9_Bounded(res) ==
    /\ \A i \in 1..Len(res.good_points) :
           Len(res.good_points[i]) \in 1..15
    /\ \A i \in 1..Len(res.improvement_areas) :
           Len(res.improvement_areas[i]) \in 1..15
    /\ \A i \in 1..Len(res.specific_advice) :
           Len(res.specific_advice[i]) \in 1..20

\* C9: parsing is one in-order pass over a current-section state that starts
\* at none; a bullet content line with a non-empty point is appended, cut to
\* 15 (good, improve) or 20 (advice) characters, to the list of the current
\* section and to no other; bullet lines in state none, empty lines and lines
\* that are neither marker nor bullet change nothing; so every entry of
\* good_points/improvement_areas has 1..15 characters and every entry of
\* specific_advice 1..20.
C9_SinglePassSections ==
    /\ [](pc = "parsing" /\ nlines = 0 =>
              current_section = "none" /\ C9_Lists = << << >>, << >>, << >> >>)
    /\ [](pc \in {"parsing", "returned"} =>
              C9_Bounded(Locals) /\ C9_Bounded(result))
    /\ [][(pc' = "parsing" /\ nlines' = nlines + 1) => C9_Step(line')]_vars

C9_Witness ==
    /\ pc = "returned"
    /\ exc = "none"
    /\ Len(result.good_points) = 1
    /\ Len(result.good_points[1]) = 15
    /\ Len(result.specific_advice) = 1
    /\ Len(result.specific_advice[1]) = 20

---------------------------------------------------------------------------
\* SpecRound: analyze_with_gemini on a response text built from a known
\* record: the score line, then each section marker followed by its points,
\* one bullet line each.

DigitChar(d) ==
    CASE d = 0 -> "0" [] d = 1 -> "1" [] d = 2 -> "2" [] d = 3 -> "3"
      [] d = 4 -> "4" [] d = 5 -> "5" [] d = 6 -> "6" [] d = 7 -> "7"
      [] d = 8 -> "8" [] d = 9 -> "9"

RECURSIVE FormatInt(_)
\* the decimal digits of n >= 0
FormatInt(n) ==
    IF n < 10 THEN <<DigitChar(n)>>
    ELSE FormatInt(n \div 10) \o <<DigitChar(n % 10)>>

\* the decimal notation of whole + tenths/10
FormatScore(whole, tenths) ==
    IF tenths = 0 THEN FormatInt(whole)
    ELSE FormatInt(whole) \o <<".", DigitChar(tenths)>>

RECURSIVE BulletLines(_, _)
BulletLines(bullet, points) ==
    IF Len(points) = 0 THEN << >>
    ELSE <<bullet \o points[1]>> \o BulletLines(bullet, Tail(points))

RECURSIVE Join(_, _)
\* sep.join(ls)
Join(ls, sep) ==
    IF Len(ls) = 0 THEN << >>
    ELSE IF Len(ls) = 1 THEN ls[1]
    ELSE ls[1] \o <<sep>> \o Join(Tail(ls), sep)

BuildText(k) ==
    LET bullet == IF k.style = "dash" THEN BulletDash ELSE BulletDot
        advice == IF k.style = "dash" THEN AdviceMarkerLong ELSE AdviceMarker
    IN Join(<<ScoreMarker \o <<" ">> \o FormatScore(k.whole, k.tenths)>>
            \o <<GoodMarker>> \o BulletLines(bullet, k.good)
            \o <<ImproveMarker>> \o BulletLines(bullet, k.improve)
            \o <<advice>> \o BulletLines(bullet, k.advice), "NL")

\* points: plain, longer than both limits, beginning with a bullet
\* character, blank, holding a section marker, holding the score marker
PointSet ==
    { <<"x">>, Long21, <<"-", "x">>, <<" ">>,
      <<"y">> \o ImproveMarker, <<"y">> \o ScoreMarker \o <<"9">> }

KnownScores ==
    {[whole |-> 0, tenths |-> 0], [whole |-> 85, tenths |-> 0],
     [whole |-> 100, tenths |-> 0], [whole |-> 72, tenths |-> 5]}

Styles == {"dash", "dot"}

Known(sc, g, i, a, st) ==
    [whole |-> sc.whole, tenths |-> sc.tenths, good |-> g, improve |-> i,
     advice |-> a, style |-> st]

RoundInit ==
    /\ scores = << >>
    /\ early_scores = << >>
    /\ late_scores = << >>
    /\ agg_pc = "input"
    /\ rows = << >>
    /\ sess = NewSession
    /\ resp = 0
    /\ req = << >>
    /\ pc = "decoded"
    /\ \E sc \in KnownScores, st \in Styles :
         \E g \in SeqsUpTo(PointSet, MaxPoints) :
            \E i \in SeqsUpTo(PointSet, MaxPoints - Len(g)) :
               \E a \in SeqsUpTo(PointSet, MaxPoints - Len(g) - Len(i)) :
                  known = Known(sc, g, i, a, st)
    /\ lines = << >>
    /\ line = << >>
    /\ nlines = 0
    /\ score = 0
    /\ good_points = << >>
    /\ improvement_areas = << >>
    /\ specific_advice = << >>
    /\ current_section = "none"
    /\ marker_seen = FALSE
    /\ exc = "none"
    /\ result = NoResult
    /\ UsersOff

\* lines 126-137 with response.text the text built from known
Respond ==
    /\ pc = "decoded"
    /\ pc' = "parsing"
    /\ lines' = Split(BuildText(known), "NL")
    /\ score' = InitialLocals.score
    /\ good_points' = InitialLocals.good_points
    /\ improvement_areas' = InitialLocals.improvement_areas
    /\ specific_advice' = InitialLocals.specific_advice
    /\ current_section' = InitialLocals.current_section
    /\ UNCHANGED <<known, line, nlines, marker_seen, exc, result>>
    /\ UNCHANGED <<outerVars, userVars>>

\* the loop takes the next element of lines
TakeLine ==
    /\ lines # << >>
    /\ Iterate(Head(lines))
    /\ lines' = Tail(lines)

RoundNext ==
    \/ Respond
    \/ TakeLine
    \/ Return

SpecRound == RoundInit /\ [][RoundNext]_vars

RECURSIVE CutAll(_, _)
CutAll(points, k) ==
    IF Len(points) = 0 THEN << >>
    ELSE <<FirstChars(points[1], k)>> \o CutAll(Tail(points), k)

RoundTrips ==
    /\ result.score * 10 = known.whole * 10 + known.tenths
    /\ result.good_points = CutAll(known.good, 15)
    /\ result.improvement_areas = CutAll(known.improve, 15)
    /\ result.specific_advice = CutAll(known.advice, 20)

HasMarker(p) ==
    \/ Contains(p, ScoreMarker)
    \/ Contains(p, GoodMarker)
    \/ Contains(p, ImproveMarker)
    \/ Contains(p, AdviceMarker)

PlainPoint(p) ==
    /\ p # << >>
    /\ \A i \in 1..Len(p) : p[i] # "NL"
    /\ p[1] \notin {" ", "TAB", "-", "DOT"}
    /\ p[Len(p)] \notin {" ", "TAB"}
    /\ ~HasMarker(p)

PlainKnown ==
    /\ known.tenths = 0
    /\ \A i \in 1..Len(known.good) : PlainPoint(known.good[i])
    /\ \A i \in 1..Len(known.improve) : PlainPoint(known.improve[i])
    /\ \A i \in 1..Len(known.advice) : PlainPoint(known.advice[i])

---------------------------------------------------------------------------
\* Further claims about analyze_dance (SpecSeq)

\* C11: the score list read from storage is in chronological recording
\* order: its element i is the i-th score recorded for the session.
C11_ReadInRecordingOrder ==
    \A i \in 1..Len(scores) : i <= Len(rows) /\ scores[i] = rows[i]

---------------------------------------------------------------------------
\* Further claims about analyze_with_gemini (SpecParse)

\* the line with its one leading bullet prefix and the surrounding whitespace
\* removed
WithoutOnePrefix(ln) ==
    IF StartsWith(ln, <<"-", " ">>)
    THEN Strip(SubSeq(ln, 3, Len(ln)))
    ELSE Strip(SubSeq(ln, 2, Len(ln)))

C12_Step(ln) ==
    LET point == WithoutOnePrefix(ln)
        limit == IF current_section = "advice" THEN 20 ELSE 15
        kept == FirstChars(point, limit)
    IN (IsContentLine(ln) /\ current_section # "none") =>
          IF point = << >> THEN UNCHANGED C9_Lists
          ELSE /\ current_section = "good" =>
                     good_points' = Append(good_points, kept)
               /\ current_section = "improve" =>
                     improvement_areas' = Append(improvement_areas, kept)
               /\ current_section = "advice" =>
                     specific_advice' = Append(specific_advice, kept)

\* C12: the point of a bullet content line is the line with its one bullet
\* prefix ('- ' or U+30FB) and the surrounding whitespace removed and nothing
\* else: leading '-' or U+30FB characters of the point text are kept, and
\* the point is dropped only when it is empty after removing the one prefix.
C12_OnlyOnePrefixRemoved ==
    [][(pc' = "parsing" /\ nlines' = nlines + 1) => C12_Step(line')]_vars

C13_Step(ln) ==
    LET hasScore == Contains(ln, ScoreMarker)
        hasGood == Contains(ln, GoodMarker)
        hasImprove == Contains(ln, ImproveMarker)
        hasAdvice == \/ Contains(ln, <<"A", "DO", "BA", "I", "SU", ":">>)
                     \/ Contains(ln, <<"GU", "TAI", "TEKI", "na", "A", "DO",
                                       "BA", "I", "SU", ":">>)
    IN /\ hasScore => UNCHANGED <<current_section, good_points,
                                  improvement_areas, specific_advice>>
       /\ (~hasScore /\ hasGood) =>
              /\ current_section' = "good"
              /\ UNCHANGED <<score, good_points, improvement_areas,
                             specific_advice>>
       /\ (~hasScore /\ ~hasGood /\ hasImprove) =>
              /\ current_section' = "improve"
              /\ UNCHANGED <<score, good_points, improvement_areas,
                             specific_advice>>
       /\ (~hasScore /\ ~hasGood /\ ~hasImprove /\ hasAdvice) =>
              /\ current_section' = "advice"
              /\ UNCHANGED <<score, good_points, improvement_areas,
                             specific_advice>>
       /\ (~hasScore /\ ~hasGood /\ ~hasImprove /\ ~hasAdvice) =>
              UNCHANGED <<score, current_section>>

\* C13: each line triggers one action chosen by the precedence score marker >
\* good marker > improve marker > advice marker (long or short) > bullet: a
\* line with a section marker only switches the section and adds no content
\* even when it starts with a bullet prefix, and a line with the score marker
\* neither switches the section nor adds content even when it also holds a
\* section marker or starts with a bullet prefix.
C13_MarkerPrecedence ==
    [][(pc' = "parsing" /\ nlines' = nlines + 1) => C13_Step(line')]_vars

C13_Witness ==
    /\ pc = "parsing"
    /\ line = <<"-", " ", "RYO", "hi", "TEN", ":", " ", "x">>
    /\ current_section = "good"
    /\ good_points = << >>
    /\ improvement_areas # << >>

---------------------------------------------------------------------------
\* users.py: update_profile, delete_account, reactivate_account

\* the user get_current_user resolved the request to.  The handler bodies are
\* modelled for every stored state of that user, active or not.
Me == "alice"

DanceLevels == {"beginner", "intermediate", "advanced"}      \* line 144

\* verify_password of app.api.auth
VerifyPassword(password, hashed) == hashed = Hash(password)

\* json.dumps of line 152, of a list of one genre
JsonDumps(genres) == "[\"" \o genres \o "\"]"

\* db.commit() (lines 156, 234, 269): the attributes of the session's object
\* become the stored row
CommitUser(table, id, obj) == [table EXCEPT ![id] = obj]

Rollback_Flushed(table, id, obj) == [table EXCEPT ![id] = obj]

\* get_db's finally: db.close() after the handler raised: the session's
\* transaction is rolled back, the attributes assigned to its object are lost
Rollback(table, id, obj) == table

\* lines 123-126
ExistingUser(table, email, id) ==
    {u \in DOMAIN table : table[u].email = email /\ u # id}

\* lines 121-154: the ORM object after the assignments, and the status
UpdateProfile(table, id, upd, now) ==
    LET cur == table[id]
        o1 == IF upd.email # None THEN [cur EXCEPT !.email = upd.email]
              ELSE cur
        o2 == IF upd.full_name # None
              THEN [o1 EXCEPT !.full_name = upd.full_name] ELSE o1
        o3 == IF upd.bio # None THEN [o2 EXCEPT !.bio = upd.bio] ELSE o2
        o4 == IF upd.profile_image_url # None
              THEN [o3 EXCEPT !.profile_image_url = upd.profile_image_url]
              ELSE o3
        o5 == IF upd.dance_level # None
              THEN [o4 EXCEPT !.dance_level = upd.dance_level] ELSE o4
        o6 == IF upd.preferred_genres # None
              THEN [o5 EXCEPT !.preferred_genres =
                                  JsonDumps(upd.preferred_genres)]
              ELSE o5
        o7 == [o6 EXCEPT !.updated_at = now]
    IN IF upd.email # None /\ ExistingUser(table, upd.email, id) # {}
       THEN [status |-> 400, obj |-> cur]
       ELSE IF upd.dance_level # None /\ upd.dance_level \notin DanceLevels
       THEN [status |-> 400, obj |-> o4]
       ELSE [status |-> 200, obj |-> o7]

\* lines 231-232
DeleteAccount(table, id, now) ==
    [status |-> 200,
     obj |-> [table[id] EXCEPT !.is_active = FALSE, !.updated_at = now]]

\* line 246: db.query(User).filter(User.username == username).first()
FindByUsername(table, username) ==
    {u \in DOMAIN table : table[u].username = username}

AlreadyActive_Skipped(user) == FALSE

\* line 260
AlreadyActive(user) == user.is_active

\* lines 246-267
ReactivateAccount(table, username, password, now) ==
    LET found == FindByUsername(table, username)
        id == CHOOSE u \in found : TRUE
        user == table[id]
    IN IF found = {} THEN [status |-> 404, id |-> None, obj |-> None]
       ELSE IF ~VerifyPassword(password, user.hashed_password)
       THEN [status |-> 401, id |-> id, obj |-> user]
       ELSE IF AlreadyActive(user)
       THEN [status |-> 400, id |-> id, obj |-> user]
       ELSE [status |-> 200, id |-> id,
             obj |-> [user EXCEPT !.is_active = TRUE, !.updated_at = now]]

\* ---- SpecUsers: whole requests, one after the other
Emails == {None, "a@x", "b@x", "c@x"}
LevelInputs == {None, "beginner", "advanced", "expert"}
Usernames == {"alice", "bob", "carol"}
PasswordInputs == {"pa", "pb"}

\* UserUpdate bodies: the three unchecked text fields are given together,
\* preferred_genres is None or the list of the one genre named
UserUpdates ==
    {[email |-> e, full_name |-> t, bio |-> t, profile_image_url |-> t,
      dance_level |-> l, preferred_genres |-> g] :
        e \in Emails, t \in {None, "text"}, l \in LevelInputs,
        g \in {None, "hiphop"}}

UserInit ==
    /\ scores = << >>
    /\ early_scores = << >>
    /\ late_scores = << >>
    /\ agg_pc = "input"
    /\ rows = << >>
    /\ sess = NewSession
    /\ resp = 0
    /\ req = << >>
    /\ ParseOff
    /\ UsersOff

UpdateProfileReq(upd) ==
    /\ clock < MaxClock
    /\ clock' = clock + 1
    /\ LET r == UpdateProfile(users, Me, upd, clock + 1)
       IN /\ users' = IF r.status = 200 THEN CommitUser(users, Me, r.obj)
                      ELSE Rollback(users, Me, r.obj)
          /\ ureq' = [op |-> "update_profile", email |-> upd.email,
                      dance_level |-> upd.dance_level, username |-> None,
                      password |-> None, status |-> r.status]
    /\ UNCHANGED <<outerVars, parseVars>>

DeleteAccountReq ==
    /\ clock < MaxClock
    /\ clock' = clock + 1
    /\ LET r == DeleteAccount(users, Me, clock + 1)
       IN /\ users' = CommitUser(users, Me, r.obj)
          /\ ureq' = [op |-> "delete_account", email |-> None,
                      dance_level |-> None, username |-> None,
                      password |-> None, status |-> r.status]
    /\ UNCHANGED <<outerVars, parseVars>>

ReactivateAccountReq(username, password) ==
    /\ clock < MaxClock
    /\ clock' = clock + 1
    /\ LET r == ReactivateAccount(users, username, password, clock + 1)
       IN /\ users' = IF r.status = 200 THEN CommitUser(users, r.id, r.obj)
                      ELSE IF r.status = 404 THEN users
                      ELSE Rollback(users, r.id, r.obj)
          /\ ureq' = [op |-> "reactivate_account", email |-> None,
                      dance_level |-> None, username |-> username,
                      password |-> password, status |-> r.status]
    /\ UNCHANGED <<outerVars, parseVars>>

UserNext ==
    \/ \E upd \in UserUpdates : UpdateProfileReq(upd)
    \/ DeleteAccountReq
    \/ \E username \in Usernames, password \in PasswordInputs :
          ReactivateAccountReq(username, password)

SpecUsers == UserInit /\ [][UserNext]_vars

\* the request of ureq' has just been served
Served == clock' = clock + 1

C14_Rejected ==
    \/ ureq'.status = 400
    \/ ureq'.email # None /\ \E u \in UserIds \ {"alice"} :
                                 users[u].email = ureq'.email
    \/ ureq'.dance_level \notin {None, "beginner", "intermediate", "advanced"}

\* C14: update_profile is all-or-nothing: when a request is rejected (email
\* registered by another user, or dance_level not one of the three levels)
\* no field of any stored user changes, fields of the same request that were
\* assigned before the failing check included.
C14_RejectedUpdateChangesNothing ==
    [][(Served /\ ureq'.op = "update_profile" /\ C14_Rejected)
          => (ureq'.status = 400 /\ users' = users)]_vars

C14_Witness ==
    /\ ureq.op = "update_profile"
    /\ ureq.email = "c@x"
    /\ ureq.dance_level = "expert"
    /\ ureq.status = 400
    /\ users["alice"].email = "a@x"
    /\ users["alice"].updated_at = 0
    /\ clock = 1

C15_Reactivation ==
    LET found == ureq'.username \in {users[u].username : u \in UserIds}
        right == \E u \in UserIds : /\ users[u].username = ureq'.username
                                    /\ ureq'.password = Passwords[u]
        active == \E u \in UserIds : /\ users[u].username = ureq'.username
                                     /\ users[u].is_active
        ok == found /\ right /\ ~active
    IN /\ ureq'.status = IF ~found THEN 404
                         ELSE IF ~right THEN 401
                         ELSE IF active THEN 400 ELSE 200
       /\ \A u \in UserIds :
             users'[u].is_active =
                IF ok /\ users[u].username = ureq'.username THEN TRUE
                ELSE users[u].is_active
       /\ ~ok => users' = users

\* C15: activation is a two-state machine over delete_account and
\* reactivate_account: delete_account leaves the account inactive;
\* reactivate_account makes it active exactly when the username exists, the
\* password verifies and the account is inactive; every rejected
\* reactivation (404, 401, 400) leaves is_active as it was.
C15_ActivationMachine ==
    [][Served =>
          /\ ureq'.op = "delete_account" =>
                /\ ~users'["alice"].is_active
                /\ users'["bob"].is_active = users["bob"].is_active
          /\ ureq'.op = "reactivate_account" => C15_Reactivation
          /\ ureq'.op = "update_profile" =>
                \A u \in UserIds : users'[u].is_active = users[u].is_active
      ]_vars

C15_Witness ==
    /\ ureq.op = "reactivate_account"
    /\ ureq.username = "alice"
    /\ ureq.status = 200
    /\ users["alice"].is_active
    /\ users["alice"].updated_at = clock
    /\ clock >= 2

====
